---- MODULE Spec2Model ----
(***************************************************************************)
(* A model of scripts/fetch_papers.py: one run of main(), which loads      *)
(* config.yaml, fetches and enriches the search results one by one         *)
(* (PaperFetcher.fetch_arxiv_papers), selects the records to return and    *)
(* writes them (PaperFetcher.save_papers).                                 *)
(*                                                                         *)
(* A Python string is a tuple of tokens: a word, or one of the separator   *)
(* characters " ", "\n", ",", ";", ":", ".", "-", "/".  Chinese words are  *)
(* written in pinyin, since a TLA+ string is ASCII.  None (an absent       *)
(* optional) is the empty tuple and a present value v is <<v>>.            *)
(***************************************************************************)
EXTENDS Integers, Sequences, FiniteSets, TLC

VARIABLES
  pc,             \* where main() is ("main", "fetching", "exited"), or where the
                  \* function applied on its own is
  cfg_file,       \* config.yaml on disk
  config,         \* self.config
  run_start,      \* datetime.now(timezone.utc) read by fetch_arxiv_papers
  start_date,     \* the cutoff of fetch_arxiv_papers, as an instant
  yielded,        \* the results self.arxiv_client.results(search) has yielded
  built,          \* the paper dicts the loop has built, in order
  last,           \* the loop's last iteration
  papers_high_if, \* fetch_arxiv_papers' bucket of high-impact papers
  papers_other,   \* fetch_arxiv_papers' other bucket
  selected,       \* the list fetch_arxiv_papers returned
  files,          \* the files save_papers has written
  raised,         \* the exception main() caught
  logged,         \* main()'s log lines
  exit_status,    \* the exit status of the process
  arg,            \* the argument of a function applied on its own
  ret             \* and what the function returned

vars ==
  <<pc, cfg_file, config, run_start, start_date, yielded, built, last, papers_high_if,
    papers_other, selected, files, raised, logged, exit_status, arg, ret>>

runVars ==
  <<run_start, start_date, yielded, built, last, papers_high_if, papers_other, selected,
    files, raised, logged, exit_status>>

(***************************************************************************)
(* Bounds of the model.                                                    *)
(***************************************************************************)
\* The most results the search collaborator yields in one run.
MaxYield == 2

\* The most words of a generated title.
MaxWords == 2

\* The most items of a generated keyword list.
MaxListLen == 3

(***************************************************************************)
(* The tables of the program, the configurations and the search results.   *)
(***************************************************************************)
\* IMPACT_FACTOR_TABLE in the order of the source; a score is kept in tenths
\* (64.8 is 648), so that the threshold 3.0 is the integer 30.
IMPACT_FACTOR_TABLE ==
  <<<<<<"Nature">>, 648>>,
    <<<<"Science">>, 638>>,
    <<<<"PAMI">>, 243>>,
    <<<<"JMLR">>, 68>>,
    <<<<"TPAMI">>, 243>>,
    <<<<"IJCV">>, 195>>,
    <<<<"Journal", " ", "of", " ", "Computational", " ", "Physics">>, 56>>,
    <<<<"Computers", " ", "&", " ", "Fluids">>, 37>>,
    <<<<"Journal", " ", "of", " ", "Fluid", " ", "Mechanics">>, 40>>,
    <<<<"AIAA", " ", "Journal">>, 22>>,
    <<<<"International", " ", "Journal", " ", "for", " ", "Numerical", " ", "Methods", " ", "in", " ", "Fluids">>, 21>>,
    <<<<"Physics", " ", "of", " ", "Fluids">>, 35>>,
    <<<<"Computational", " ", "Mechanics">>, 32>>,
    <<<<"Journal", " ", "of", " ", "Machine", " ", "Learning", " ", "for", " ", "Science", " ", "and", " ", "Technology">>, 25>>,
    <<<<"NeurIPS">>, 140>>,
    <<<<"ICML">>, 120>>,
    <<<<"ICLR">>, 100>>,
    <<<<"CVPR">>, 112>>,
    <<<<"ICCV">>, 105>>,
    <<<<"ECCV">>, 85>>,
    <<<<"ACL">>, 71>>,
    <<<<"EMNLP">>, 62>>,
    <<<<"NAACL">>, 55>>,
    <<<<"AAAI">>, 77>>,
    <<<<"IJCAI">>, 56>>,
    <<<<"KDD">>, 69>>,
    <<<<"IROS">>, 47>>,
    <<<<"ICRA">>, 43>>,
    <<<<"AIAA", " ", "SciTech", " ", "Forum">>, 30>>,
    <<<<"ASME", " ", "Fluids", " ", "Engineering", " ", "Division", " ", "Meeting">>, 25>>,
    <<<<"International", " ", "Conference", " ", "on", " ", "Computational", " ", "Fluid", " ", "Dynamics">>, 35>>,
    <<<<"International", " ", "Conference", " ", "on", " ", "Numerical", " ", "Methods", " ", "in", " ", "Fluid", " ", "Dynamics">>, 30>>,
    <<<<"International", " ", "Symposium", " ", "on", " ", "Turbulence", " ", "and", " ", "Shear", " ", "Flow", " ", "Phenomena">>, 30>>,
    <<<<"Conference", " ", "on", " ", "Machine", " ", "Learning", " ", "for", " ", "Fluid", " ", "Dynamics">>, 40>>,
    <<<<"International", " ", "Conference", " ", "on", " ", "Computational", " ", "Mechanics">>, 30>>,
    <<<<"European", " ", "Conference", " ", "on", " ", "Computational", " ", "Fluid", " ", "Dynamics">>, 30>>>>

\* classify_paper's fluid pool (流体力学 liutilixue, 空气动力学 kongqidonglixue,
\* 多相流 duoxiangliu, 湍流 tuanliu, 流动模拟 liudongmoni, 计算流体力学
\* jisuanliutilixue, 数值模拟 shuzhimoni, 数值计算 shuzhijisuan).
fluid_keywords_pool ==
  <<<<"cfd">>, <<"fluid", " ", "dynamics">>, <<"turbulence">>, <<"aerodynamics">>,
    <<"multiphase", " ", "flow">>, <<"liutilixue">>, <<"kongqidonglixue">>,
    <<"duoxiangliu">>, <<"tuanliu">>, <<"liudongmoni">>, <<"jisuanliutilixue">>,
    <<"shuzhimoni">>, <<"shuzhijisuan">>, <<"flow", " ", "modeling">>,
    <<"flow", " ", "computation">>>>

\* classify_paper's machine-learning pool (智能流体力学 zhinengliutilixue, 机器学习
\* jiqixuexi, 深度学习 shenduxuexi, 神经网络 shenjingwangluo, 强化学习 qianghuaxuexi,
\* 迁移学习 qianyixuexi, 监督学习 jianduxuexi, 无监督学习 wujianduxuexi,
\* 物理信息神经网络 wulixinxishenjingwangluo, 代理模型 dailimoxing).
ml_keywords_pool ==
  <<<<"machine", " ", "learning">>, <<"deep", " ", "learning">>,
    <<"neural", " ", "network">>, <<"pinn">>, <<"data-driven">>,
    <<"zhinengliutilixue">>, <<"jiqixuexi">>, <<"shenduxuexi">>, <<"shenjingwangluo">>,
    <<"qianghuaxuexi">>, <<"qianyixuexi">>, <<"jianduxuexi">>, <<"wujianduxuexi">>,
    <<"wulixinxishenjingwangluo">>, <<"dailimoxing">>,
    <<"reduced-order", " ", "model">>, <<"rom">>, <<"cnn">>, <<"rnn">>, <<"gan">>,
    <<"data-driven", " ", "modeling">>, <<"surrogate", " ", "model">>>>

\* extract_paper_keywords' fixed core-term list.
core_keywords ==
  <<<<"jisuanliutilixue">>, <<"shuzhimoni">>, <<"shuzhijisuan">>,
    <<"wulixinxishenjingwangluo">>, <<"dailimoxing">>, <<"rom">>, <<"shenduxuexi">>,
    <<"shenjingwangluo">>, <<"qianghuaxuexi">>, <<"qianyixuexi">>, <<"jianduxuexi">>,
    <<"wujianduxuexi">>, <<"cfd">>, <<"fluid", " ", "dynamics">>, <<"turbulence">>,
    <<"aerodynamics">>, <<"multiphase", " ", "flow">>, <<"machine", " ", "learning">>,
    <<"deep", " ", "learning">>, <<"pinn">>, <<"neural", " ", "network">>>>

\* The categories of a config.yaml naming every category classify_paper knows
\* (CFD与机器学习交叉, 智能流体力学, 流体力学, 多相流, 空气动力学, 机器学习) and one it
\* does not (优化 youhua), in the order of the file.
CategoriesFull ==
  <<[name |-> "CFDyujiqixuexijiaocha", keywords |-> <<<<"physics-informed">>>>],
    [name |-> "zhinengliutilixue", keywords |-> <<<<"zhinengliutilixue">>, <<"data-driven">>>>],
    [name |-> "liutilixue", keywords |-> <<<<"Turbulence">>, <<"CFD">>>>],
    [name |-> "duoxiangliu", keywords |-> <<<<"slug", " ", "flow">>>>],
    [name |-> "kongqidonglixue", keywords |-> <<<<"wings">>>>],
    [name |-> "jiqixuexi", keywords |-> <<<<"machine", " ", "learning">>, <<"cnn">>>>],
    [name |-> "youhua", keywords |-> <<<<"bound">>>>]>>

\* The categories of a config.yaml without the cross-domain category.
CategoriesPlain ==
  <<[name |-> "liutilixue", keywords |-> <<<<"fluid", " ", "dynamics">>>>],
    [name |-> "jiqixuexi", keywords |-> <<<<"machine", " ", "learning">>>>]>>

\* The venues of the config.yaml files.
VenuesOfConfig ==
  [conferences |-> <<<<"NeurIPS">>, <<"NAACL">>>>,
   journals |-> <<<<"Journal", " ", "of", " ", "Fluid", " ", "Mechanics">>, <<"AIAA", " ", "Journal">>>>]

\* Published exactly 30 days before RunStart, timezone-aware; fluid and ML terms,
\* a keyword list with a semicolon, a venue of the table with a score >= 3.0.
ResultAtCutoff ==
  [entry_id |-> <<"http:", "/", "/", "arxiv.org", "/", "abs", "/", "2610.00001v1">>,
   title |-> <<"PINN", " ", "surrogate", " ", "for", " ", "Turbulence">>,
   summary |->
     <<"We", " ", "model", " ", "turbulence", " ", "with", " ", "a", " ", "neural",
       " ", "network", ".", "\n", "Keywords", ":", " ", "turbulence", ",", " ", "CFD",
       ";", " ", "deep", " ", "learning">>,
   comment |->
     <<"Accepted", " ", "at", " ", "NeurIPS", " ", "2026">>,
   published |-> [year |-> 2026, month |-> 10, day |-> 3, hour |-> 10, tzinfo |-> <<0>>],
   categories |-> <<"physics.flu-dyn", "cs.LG">>]

\* The same instant without timezone; fluid terms only, no comment.
ResultNaiveAtCutoff ==
  [entry_id |-> <<"http:", "/", "/", "arxiv.org", "/", "abs", "/", "2610.00002v1">>,
   title |-> <<"Multiphase", " ", "flow", " ", "in", " ", "pipes">>,
   summary |->
     <<"A", " ", "CFD", " ", "study", " ", "of", " ", "slug", " ", "flow", ".">>,
   comment |->
     <<>>,
   published |-> [year |-> 2026, month |-> 10, day |-> 3, hour |-> 10, tzinfo |-> <<>>],
   categories |-> <<"physics.flu-dyn">>]

\* No fluid term; 'from' holds the ML pool's 'rom'; no category keyword.
ResultUntagged ==
  [entry_id |-> <<"http:", "/", "/", "arxiv.org", "/", "abs", "/", "2611.00003v1">>,
   title |-> <<"Notes", " ", "from", " ", "number", " ", "theory">>,
   summary |->
     <<"We", " ", "prove", " ", "a", " ", "bound", ".">>,
   comment |->
     <<>>,
   published |-> [year |-> 2026, month |-> 11, day |-> 1, hour |-> 8, tzinfo |-> <<0>>],
   categories |-> <<"math.NT">>]

\* 17:00 at UTC+8 is 09:00 UTC: one hour older than the cutoff although its
\* wall-clock reading is later.
ResultOffsetOlder ==
  [entry_id |-> <<"http:", "/", "/", "arxiv.org", "/", "abs", "/", "2610.00005v1">>,
   title |-> <<"Turbulence", " ", "closure">>,
   summary |->
     <<"A", " ", "data-driven", " ", "closure", ".">>,
   comment |->
     <<>>,
   published |-> [year |-> 2026, month |-> 10, day |-> 3, hour |-> 17, tzinfo |-> <<8>>],
   categories |-> <<"physics.flu-dyn">>]

\* November; twelve core terms in title and abstract, a labeled keyword list in
\* Chinese that runs on into the comment; a venue scoring 4.0.
ResultManyTerms ==
  [entry_id |-> <<"http:", "/", "/", "arxiv.org", "/", "abs", "/", "2611.00007v1">>,
   title |-> <<"Aerodynamics", " ", "PINN", " ", "ROM">>,
   summary |->
     <<"fluid", " ", "dynamics", " ", "and", " ", "multiphase", " ", "flow", " ", "by",
       " ", "machine", " ", "learning", " ", "and", " ", "deep", " ", "learning", " ",
       "neural", " ", "network", " ", "shenduxuexi", " ", "wulixinxishenjingwangluo",
       ".", " ", "guanjianci", ":", " ", "tuanliu", ",", " ", "dailimoxing">>,
   comment |->
     <<"Journal", " ", "of", " ", "Fluid", " ", "Mechanics">>,
   published |-> [year |-> 2026, month |-> 11, day |-> 2, hour |-> 9, tzinfo |-> <<0>>],
   categories |-> <<"physics.flu-dyn", "cs.LG">>]

\* str.lower() on the tokens of the model that are not lower-case already.
LowerOf ==
  ("A" :> "a") @@ ("AAAI" :> "aaai") @@ ("ACL" :> "acl") @@ ("AIAA" :> "aiaa") @@
  ("ASME" :> "asme") @@ ("Accepted" :> "accepted") @@ ("Aerodynamics" :> "aerodynamics") @@
  ("CFD" :> "cfd") @@ ("CVPR" :> "cvpr") @@ ("Computational" :> "computational") @@
  ("Computers" :> "computers") @@ ("Conference" :> "conference") @@
  ("Division" :> "division") @@ ("Dynamics" :> "dynamics") @@ ("ECCV" :> "eccv") @@
  ("EMNLP" :> "emnlp") @@ ("Engineering" :> "engineering") @@ ("European" :> "european") @@
  ("Flow" :> "flow") @@ ("Fluid" :> "fluid") @@ ("Fluids" :> "fluids") @@
  ("Forum" :> "forum") @@ ("ICCV" :> "iccv") @@ ("ICLR" :> "iclr") @@ ("ICML" :> "icml") @@
  ("ICRA" :> "icra") @@ ("IJCAI" :> "ijcai") @@ ("IJCV" :> "ijcv") @@ ("IROS" :> "iros") @@
  ("International" :> "international") @@ ("JMLR" :> "jmlr") @@ ("Journal" :> "journal") @@
  ("KDD" :> "kdd") @@ ("Keywords" :> "keywords") @@ ("Learning" :> "learning") @@
  ("Machine" :> "machine") @@ ("Mechanics" :> "mechanics") @@ ("Meeting" :> "meeting") @@
  ("Methods" :> "methods") @@ ("Multiphase" :> "multiphase") @@ ("NAACL" :> "naacl") @@
  ("Nature" :> "nature") @@ ("NeurIPS" :> "neurips") @@ ("Notes" :> "notes") @@
  ("Numerical" :> "numerical") @@ ("PAMI" :> "pami") @@ ("PINN" :> "pinn") @@
  ("Phenomena" :> "phenomena") @@ ("Physics" :> "physics") @@ ("ROM" :> "rom") @@
  ("SciTech" :> "scitech") @@ ("Science" :> "science") @@ ("Shear" :> "shear") @@
  ("Symposium" :> "symposium") @@ ("TPAMI" :> "tpami") @@ ("Technology" :> "technology") @@
  ("Turbulence" :> "turbulence") @@ ("We" :> "we")

\* <<a, b>>: the one-word term a occurs inside word b (Python's `a in b` on the
\* words of the model, a # b).
InfixPairs ==
  {<<"acl", "naacl">>, <<"jianduxuexi", "wujianduxuexi">>,
   <<"liutilixue", "jisuanliutilixue">>, <<"liutilixue", "zhinengliutilixue">>,
   <<"pami", "tpami">>, <<"rom", "from">>,
   <<"shenjingwangluo", "wulixinxishenjingwangluo">>}

\* <<a, b>>: word b starts with a, the last word of a term of several words.
PrefixPairs ==
  {<<"computation", "computational">>, <<"model", "modeling">>,
   <<"physics", "physics-informed">>}

\* <<a, b>>: word b ends with a, the first word of a term of several words.
SuffixPairs ==
  {<<"fluid", "superfluid">>}

(***************************************************************************)
(* Python values and strings.                                              *)
(***************************************************************************)
None == <<>>

Some(v) == <<v>>

Min(S) == CHOOSE x \in S : \A y \in S : x <= y

Max(S) == CHOOSE x \in S : \A y \in S : y <= x

\* The elements of a list.
Elems(s) == {s[i] : i \in 1..Len(s)}

\* s[:n] of a list.
Slice(s, n) ==
  IF n >= 0
    THEN SubSeq(s, 1, IF n < Len(s) THEN n ELSE Len(s))
    ELSE SubSeq(s, 1, Len(s) + n)

\* list(S) of a set: its elements once each, in an order Python does not fix.
RECURSIVE Listings(_)
Listings(S) ==
  IF S = {} THEN {<<>>}
  ELSE UNION {{<<x>> \o l : l \in Listings(S \ {x})} : x \in S}

UpperTokens == DOMAIN LowerOf

Lower(tok) == IF tok \in UpperTokens THEN LowerOf[tok] ELSE tok

\* str.lower()
RECURSIVE lower(_)
lower(s) == IF s = <<>> THEN <<>> ELSE <<Lower(Head(s))>> \o lower(Tail(s))

IsSpace(tok) == tok \in {" ", "\n"}

\* str.strip()
strip(s) ==
  LET solid == {i \in 1..Len(s) : ~IsSpace(s[i])}
  IN  IF solid = {} THEN <<>> ELSE SubSeq(s, Min(solid), Max(solid))

\* str.replace("\n", " ")
replace_newlines(s) == [i \in 1..Len(s) |-> IF s[i] = "\n" THEN " " ELSE s[i]]

\* str.split(sep) and re.split(r'[..]', s): the pieces between the separators.
RECURSIVE Split(_, _)
Split(s, seps) ==
  LET at == {i \in 1..Len(s) : s[i] \in seps}
  IN  IF at = {} THEN <<s>>
      ELSE <<SubSeq(s, 1, Min(at) - 1)>> \o Split(SubSeq(s, Min(at) + 1, Len(s)), seps)

\* Whether word t of a term lies in word w of a text at the term's place: a term
\* of one word may lie inside w, the first word of a longer term at w's end, its
\* last word at w's start, and an inner word is w.
WordIn(place, t, w) ==
  \/ t = w
  \/ place = "only" /\ <<t, w>> \in InfixPairs
  \/ place = "first" /\ <<t, w>> \in SuffixPairs
  \/ place = "last" /\ <<t, w>> \in PrefixPairs

Place(term, j) ==
  IF Len(term) = 1 THEN "only"
  ELSE IF j = 1 THEN "first"
  ELSE IF j = Len(term) THEN "last" ELSE "inner"

\* Whether term t lies in text s from position i + 1 on.
LiesAt(t, s, i) == \A j \in 1..Len(t) : WordIn(Place(t, j), t[j], s[i + j])

\* Python's `term in text` on strings.
In(term, text) ==
  \E t \in {term}, s \in {text} : \E i \in 0..(Len(s) - Len(t)) : LiesAt(t, s, i)

(***************************************************************************)
(* datetime.  The years of the model (2025 to 2027) have 365 days.         *)
(***************************************************************************)
DaysBeforeMonth == <<0, 31, 59, 90, 120, 151, 181, 212, 243, 273, 304, 334>>

\* The instant of an aware datetime, in hours since 2025-01-01 00:00 UTC.
Timestamp(d) ==
  ((d.year - 2025) * 365 + DaysBeforeMonth[d.month] + d.day - 1) * 24
    + d.hour - d.tzinfo[1]

\* datetime.now(timezone.utc) - timedelta(days=days_back), as an instant.
Cutoff(now, days_back) == Timestamp(now) - 24 * days_back

\* published.replace(tzinfo=timezone.utc) when published.tzinfo is None.
NormalizeTz(published) ==
  IF published.tzinfo = None THEN [published EXCEPT !.tzinfo = Some(0)] ELSE published

\* published < start_date; comparing a naive datetime with an aware one raises.
DatetimeLess(published, instant) ==
  IF published.tzinfo = None THEN "TypeError"
  ELSE IF Timestamp(published) < instant THEN "yes" ELSE "no"

\* The loop's date test: `continue` when published < start_date.
DateTest(published, instant) == DatetimeLess(NormalizeTz(published), instant)

TwoDigits ==
  <<"01", "02", "03", "04", "05", "06", "07", "08", "09", "10", "11", "12", "13",
    "14", "15", "16", "17", "18", "19", "20", "21", "22", "23", "24", "25", "26",
    "27", "28", "29", "30", "31">>

FourDigits == (2025 :> "2025") @@ (2026 :> "2026") @@ (2027 :> "2027")

\* published.strftime("%Y-%m-%d")
strftime_Ymd(d) ==
  <<FourDigits[d.year], "-", TwoDigits[d.month], "-", TwoDigits[d.day]>>

(***************************************************************************)
(* get_impact_factor                                                       *)
(***************************************************************************)
ImpactThreshold == 30

\* IMPACT_FACTOR_TABLE[key]
TableValue(key) ==
  IMPACT_FACTOR_TABLE[CHOOSE i \in 1..Len(IMPACT_FACTOR_TABLE) :
                        IMPACT_FACTOR_TABLE[i][1] = key][2]

TableKeys == {IMPACT_FACTOR_TABLE[i][1] : i \in 1..Len(IMPACT_FACTOR_TABLE)}

\* paper.get('conference') or paper.get('venue'): no paper has a 'venue'.
get_impact_factor(paper) ==
  LET name == paper.conference
      cats == paper.categories
      table == IMPACT_FACTOR_TABLE
  IN  IF name = <<>>
        THEN LET keyed == {c \in 1..Len(cats) : <<cats[c]>> \in TableKeys}
             IN  IF keyed = {} THEN None ELSE Some(TableValue(<<cats[Min(keyed)]>>))
        ELSE LET hits == {i \in 1..Len(table) : In(lower(table[i][1]), lower(name))}
             IN  IF hits = {} THEN None ELSE Some(table[Min(hits)][2])

(***************************************************************************)
(* get_citation_count.  A reply of the citation service is                 *)
(*   [outcome, status_code, parses, data]:                                 *)
(* outcome is "Timeout" or "ConnectionError" when requests.get raises and  *)
(* "response" otherwise; parses says whether resp.json() succeeds; data is *)
(* the body's "data" list, each entry given by its citationCount (None     *)
(* when the entry has none).                                               *)
(***************************************************************************)
ExpectedStatus == 1000

\* The body of the try block: what it returns, or the exception it raises.
CitationTry(reply) ==
  IF reply.outcome # "response"
    THEN [raises |-> reply.outcome, value |-> None]
  ELSE IF reply.status_code = ExpectedStatus
    THEN IF ~reply.parses
           THEN [raises |-> "JSONDecodeError", value |-> None]
         ELSE IF reply.data # <<>>
           THEN [raises |-> "none",
                 value |-> IF reply.data[1] = None THEN Some(0) ELSE reply.data[1]]
         ELSE [raises |-> "none", value |-> None]
  ELSE [raises |-> "none", value |-> None]

\* get_citation_count with its `except Exception` removed.
CitationUncaught(reply) == CitationTry(reply)

get_citation_count(reply) ==
  LET try == CitationTry(reply)
  IN  IF try.raises # "none" THEN [raises |-> "none", value |-> None] ELSE try

(***************************************************************************)
(* extract_official_keywords: the pattern                                  *)
(*   (?:key\s*words?|关键词)\s*:\s*([^.;\n]+)                               *)
(* on tokens (关键词 is guanjianci).                                        *)
(***************************************************************************)
\* The characters [^.;\n] excludes.
CaptureStops == {".", ";", "\n"}

\* The first position from i on that holds no white space (Len(text) + 1: none).
SkipSpaces(text, i) ==
  Min({j \in i..(Len(text) + 1) : j > Len(text) \/ ~IsSpace(text[j])})

\* Where (?:key\s*words?|关键词) ends when it matches from position i; 0: no match.
LabelEnd(text, i) ==
  IF text[i] \in {"keywords", "keyword", "guanjianci"} THEN i
  ELSE IF text[i] = "key"
    THEN LET j == SkipSpaces(text, i + 1)
         IN  IF j <= Len(text) /\ text[j] \in {"words", "word"} THEN j ELSE 0
  ELSE 0

\* The match of the pattern from position i: the greedy \s* after the colon gives
\* back white space until the group has a first character.
MatchAt(text, i) ==
  LET e == LabelEnd(text, i)
      c == SkipSpaces(text, e + 1)
      colon == e > 0 /\ c <= Len(text) /\ text[c] = ":"
      w == SkipSpaces(text, c + 1)
      starts == {p \in (c + 1)..w : p <= Len(text) /\ text[p] \notin CaptureStops}
      p == Max(starts)
      q == Min({j \in p..Len(text) : j = Len(text) \/ text[j + 1] \in CaptureStops})
  IN  IF colon /\ starts # {}
        THEN [matched |-> TRUE, group |-> SubSeq(text, p, q), next |-> q + 1]
        ELSE [matched |-> FALSE, group |-> <<>>, next |-> i + 1]

\* re.findall(kw_pattern, full_text) from position i on.
RECURSIVE FindAll(_, _)
FindAll(text, i) ==
  IF i > Len(text) THEN <<>>
  ELSE LET m == MatchAt(text, i)
       IN  IF m.matched THEN <<m.group>> \o FindAll(text, m.next)
           ELSE FindAll(text, i + 1)

\* [kw.strip() for kw in re.split(r'[,;]', match) if kw.strip()]
KeywordsOfMatch(match) ==
  LET pieces == Split(match, {",", ";"})
  IN  {strip(pieces[k]) : k \in 1..Len(pieces)} \ {<<>>}

\* result.summary and result.comment give the keywords; the returned
\* list(set(..)) is modelled by its set of entries.
extract_official_keywords(result) ==
  LET full_text == lower(strip(replace_newlines(result.summary)) \o <<" ">>
                         \o result.comment)
      matches == FindAll(full_text, 1)
  IN  {lower(kw) : kw \in UNION {KeywordsOfMatch(matches[k]) : k \in 1..Len(matches)}}

(***************************************************************************)
(* extract_paper_keywords                                                  *)
(***************************************************************************)
MaxKeywords == 10

\* paper["title"] + " " + paper["abstract"], lower-cased.
PaperText(paper) == lower(paper.title \o <<" ">> \o paper.abstract)

\* [kw.lower() for kw in keywords], as a set.
LowerAll(keywords) == {lower(keywords[k]) : k \in 1..Len(keywords)}

\* {kw for kw in all_keywords if kw in text}
MatchedVocabulary(paper, cfg) ==
  LET all_keywords ==
        UNION {LowerAll(cfg.categories[c].keywords) : c \in 1..Len(cfg.categories)}
  IN  UNION {{kw \in all_keywords : In(kw, text)} : text \in {PaperText(paper)}}

\* The loop over core_keywords from position i on.
CoreTerms == [i \in 1..Len(core_keywords) |-> lower(core_keywords[i])]

RECURSIVE AppendCore(_, _, _)
AppendCore(extracted, text, i) ==
  IF i > Len(CoreTerms) THEN extracted
  ELSE AppendCore(IF In(CoreTerms[i], text) /\ CoreTerms[i] \notin Elems(extracted)
                    THEN Append(extracted, CoreTerms[i]) ELSE extracted,
                  text, i + 1)

\* return extracted[:10], with the cut left out.
KeepAll(extracted) == extracted

\* return extracted[:10]
KeepFirst(extracted) == Slice(extracted, MaxKeywords)

\* extracted_list is list({..}), one of Listings(MatchedVocabulary(paper, cfg)).
extract_paper_keywords(paper, extracted_list) ==
  CHOOSE kept \in {KeepFirst(AppendCore(extracted_list, text, 1)) :
                     text \in {PaperText(paper)}} : TRUE

(***************************************************************************)
(* classify_paper.  The category names: CFD与机器学习交叉                   *)
(* CFDyujiqixuexijiaocha, 智能流体力学 zhinengliutilixue, 多相流             *)
(* duoxiangliu, 空气动力学 kongqidonglixue, 流体力学 liutilixue, 机器学习     *)
(* jiqixuexi.                                                              *)
(***************************************************************************)
CrossDomain == "CFDyujiqixuexijiaocha"

FluidTerms == LowerAll(fluid_keywords_pool)

MlTerms == LowerAll(ml_keywords_pool)

\* any(kw.lower() in text for kw in fluid_keywords_pool)
HasFluid(text) == \E s \in {text} : \E kw \in FluidTerms : In(kw, s)

\* any(kw.lower() in text for kw in ml_keywords_pool)
HasMl(text) == \E s \in {text} : \E kw \in MlTerms : In(kw, s)

\* The cross-domain test with `or` for `and`.
CrossRuleEither(has_fluid, has_ml) == has_fluid \/ has_ml

\* if has_fluid and has_ml
CrossRule(has_fluid, has_ml) == has_fluid /\ has_ml

\* Whether the loop over the categories tags the paper with this category.
CategoryRule(category, text) ==
  LET has_category_kw == \E kw \in LowerAll(category.keywords) : In(kw, text)
  IN  IF category.name = CrossDomain THEN CrossRule(HasFluid(text), HasMl(text))
      ELSE IF category.name = "zhinengliutilixue" THEN has_category_kw
      ELSE IF category.name \in {"duoxiangliu", "kongqidonglixue", "liutilixue"}
        THEN has_category_kw
      ELSE IF category.name = "jiqixuexi" THEN has_category_kw
      ELSE FALSE

\* The tags the fallback rules add after the loop.
Fallback(text) ==
  (IF HasFluid(text) THEN {"liutilixue"} ELSE {})
  \cup (IF In(<<"zhinengliutilixue">>, text) THEN {"zhinengliutilixue"} ELSE {})
  \cup (IF In(<<"duoxiangliu">>, text) \/ In(<<"multiphase", " ", "flow">>, text)
          THEN {"duoxiangliu"} ELSE {})
  \cup (IF In(<<"kongqidonglixue">>, text) \/ In(<<"aerodynamics">>, text)
          THEN {"kongqidonglixue"} ELSE {})

\* The returned list(tags) is modelled by the set tags.
classify_paper(paper, cfg) ==
  UNION {{cfg.categories[c].name :
            c \in {n \in 1..Len(cfg.categories) : CategoryRule(cfg.categories[n], text)}}
         \cup Fallback(text) : text \in {PaperText(paper)}}

(***************************************************************************)
(* The inputs of a run: config.yaml, the clock, the search results and the *)
(* replies of the citation service.                                        *)
(***************************************************************************)
DefaultMaxResults == 1000

DefaultDaysBack == 180

\* The largest max_results of the generated configurations.
MaxCap == 2

ConfigFull(cap) ==
  [categories |-> CategoriesFull,
   venues |-> VenuesOfConfig,
   sources |-> [arxiv |-> [enabled |-> TRUE, categories |-> <<"physics.flu-dyn">>,
                           max_results |-> Some(cap), days_back |-> Some(30)]],
   output |-> [data_dir |-> <<"data">>, docs_dir |-> <<"docs">>]]

\* No cross-domain category, and neither max_results nor days_back.
ConfigPlain ==
  [categories |-> CategoriesPlain,
   venues |-> VenuesOfConfig,
   sources |-> [arxiv |-> [enabled |-> TRUE, categories |-> <<>>,
                           max_results |-> None, days_back |-> None]],
   output |-> [data_dir |-> <<"data">>, docs_dir |-> <<"docs">>]]

ConfigDisabled ==
  [ConfigPlain EXCEPT !.sources.arxiv.enabled = FALSE]

Configs == {ConfigFull(cap) : cap \in 1..MaxCap} \cup {ConfigPlain, ConfigDisabled}

CfgFiles ==
  {[status |-> "missing", content |-> None], [status |-> "unparsable", content |-> None]}
  \cup {[status |-> "ok", content |-> Some(c)] : c \in Configs}

\* datetime.now(timezone.utc) at the start of fetch_arxiv_papers.
RunStarts ==
  {[year |-> 2026, month |-> 11, day |-> 2, hour |-> 10, tzinfo |-> Some(0)]}

\* What self.arxiv_client.results(search) can yield. The model lets it yield up
\* to MaxYield results whatever max_results the search was given.
Results ==
  {ResultAtCutoff, ResultNaiveAtCutoff, ResultUntagged, ResultOffsetOlder,
   ResultManyTerms}

HttpReply(status_code, parses, data) ==
  [outcome |-> "response", status_code |-> status_code, parses |-> parses,
   data |-> data]

\* What requests.get(..) does: it raises, or answers.
Replies ==
  {[outcome |-> "Timeout", status_code |-> 0, parses |-> FALSE, data |-> <<>>],
   [outcome |-> "ConnectionError", status_code |-> 0, parses |-> FALSE, data |-> <<>>],
   HttpReply(200, TRUE, <<Some(7)>>),
   HttpReply(200, FALSE, <<>>),
   HttpReply(429, TRUE, <<>>)}

NoReply == [outcome |-> "none", status_code |-> 0, parses |-> FALSE, data |-> <<>>]

(***************************************************************************)
(* One iteration of fetch_arxiv_papers' loop.                              *)
(***************************************************************************)
\* The paper dict as the loop first builds it. authors, arxiv_url, pdf_url and
\* code_link, which nothing reads, are left out.
NewPaper(result, published) ==
  LET parts == Split(result.entry_id, {"/"})
  IN  [id |-> parts[Len(parts)],
       title |-> result.title,
       abstract |-> strip(replace_newlines(result.summary)),
       published |-> strftime_Ymd(published),
       categories |-> result.categories,
       conference |-> <<>>,
       tags |-> {},
       official_keywords |-> extract_official_keywords(result),
       custom_keywords |-> <<>>,
       keywords |-> {},
       citation_count |-> None,
       impact_factor |-> None]

\* The first configured venue found in result.comment ("": none, or no comment).
VenueOf(comment, cfg) ==
  LET all_venues == cfg.venues.conferences \o cfg.venues.journals
      hits == {v \in 1..Len(all_venues) : In(lower(all_venues[v]), lower(comment))}
  IN  IF comment = <<>> \/ hits = {} THEN <<>> ELSE all_venues[Min(hits)]

\* The paper with conference, tags, custom_keywords and keywords filled.
Tagged(new, comment, cfg, extracted_list) ==
  LET p0 == [new EXCEPT !.conference = VenueOf(comment, cfg)]
      p1 == [p0 EXCEPT !.tags = classify_paper(p0, cfg)]
      p2 == [p1 EXCEPT !.custom_keywords = extract_paper_keywords(p1, extracted_list)]
  IN  [p2 EXCEPT !.keywords = p2.official_keywords \cup Elems(p2.custom_keywords)]

\* The bucket test with `if paper["tags"]` left out.
BucketUntagged(paper) ==
  IF paper.impact_factor # None /\ paper.impact_factor[1] >= ImpactThreshold
    THEN "high" ELSE "other"

\* The bucket the loop appends the paper to.
Bucket(paper) ==
  IF paper.tags # {}
    THEN IF paper.impact_factor # None /\ paper.impact_factor[1] # 0
              /\ paper.impact_factor[1] >= ImpactThreshold
           THEN "high" ELSE "other"
    ELSE "none"

\* The date test with `<=` for `<`.
SkippedOrEqual(published, instant) ==
  LET t == DateTest(published, instant)
  IN  IF t = "no" /\ Timestamp(NormalizeTz(published)) = instant THEN "yes" ELSE t

\* Whether the loop skips the result: "yes", "no", or the exception raised.
Skipped(published, instant) == DateTest(published, instant)

\* The selection without the fill from papers_other.
SelectNoFill(high, other, max_results) == Slice(high, max_results)

\* selected = papers_high_if[:max_results], filled from papers_other.
Select(high, other, max_results) ==
  LET sel == Slice(high, max_results)
  IN  IF Len(sel) < max_results
        THEN sel \o Slice(other, max_results - Len(sel)) ELSE sel

\* arxiv_config.get("max_results", 1000)
MaxResultsOf(cfg) ==
  IF cfg.sources.arxiv.max_results = None THEN DefaultMaxResults
  ELSE cfg.sources.arxiv.max_results[1]

\* arxiv_config.get("days_back", 180)
DaysBackOf(cfg) ==
  IF cfg.sources.arxiv.days_back = None THEN DefaultDaysBack
  ELSE cfg.sources.arxiv.days_back[1]

(***************************************************************************)
(* save_papers                                                             *)
(***************************************************************************)
\* paper["published"].split("-")[0] + "-" + paper["published"].split("-")[1]
MonthOf(paper) ==
  LET parts == Split(paper.published, {"-"})
  IN  parts[1] \o <<"-">> \o parts[2]

\* month_papers: the months in the order of their first paper, each with its
\* papers in order.
RECURSIVE GroupByMonth(_, _)
GroupByMonth(papers, groups) ==
  IF papers = <<>> THEN groups
  ELSE LET month == MonthOf(Head(papers))
           at == {g \in 1..Len(groups) : groups[g].month = month}
       IN  GroupByMonth(
             Tail(papers),
             IF at = {}
               THEN Append(groups, [month |-> month, papers |-> <<Head(papers)>>])
               ELSE [groups EXCEPT ![Min(at)].papers = Append(@, Head(papers))])

\* os.path.join(dir, name)
PathJoin(dir, name) == dir \o <<"/">> \o name

\* What save_papers writes, in order, for a non-empty list of papers. The loop
\* `for month, papers in month_papers.items()` rebinds `papers`, so the list
\* dumped to docs/papers.json is the list of the last month.
Writes(papers, cfg) ==
  LET month_papers == GroupByMonth(papers, <<>>)
      data_dir == cfg.output.data_dir
      index_data == [g \in 1..Len(month_papers) |->
                       [month |-> month_papers[g].month,
                        count |-> Len(month_papers[g].papers)]]
      rebound == month_papers[Len(month_papers)].papers
  IN  <<[path |-> PathJoin(data_dir, <<"index.json">>), content |-> index_data]>>
      \o [g \in 1..Len(month_papers) |->
            [path |-> PathJoin(data_dir, month_papers[g].month \o <<".json">>),
             content |-> month_papers[g].papers]]
      \o <<[path |-> PathJoin(cfg.output.docs_dir, <<"papers.json">>),
            content |-> rebound]>>

\* The files after the first n writes.
RECURSIVE Written(_, _, _)
Written(disk, writes, n) ==
  IF n = 0 THEN disk
  ELSE Written((writes[1].path :> writes[1].content) @@ disk, Tail(writes), n - 1)

(***************************************************************************)
(* The run of main().                                                      *)
(***************************************************************************)
NoIteration ==
  [index |-> 0, retained |-> FALSE, reply |-> NoReply, calls |-> <<>>,
   paper |-> None, bucket |-> "none"]

\* No step of fetch_arxiv_papers or save_papers has been taken.
NothingFetched ==
  /\ run_start = None
  /\ start_date = None
  /\ yielded = <<>>
  /\ built = <<>>
  /\ last = NoIteration
  /\ papers_high_if = <<>>
  /\ papers_other = <<>>
  /\ selected = None
  /\ files = <<>>
  /\ raised = "none"
  /\ logged = <<>>
  /\ exit_status = None

Init ==
  /\ pc = "main"
  /\ cfg_file \in CfgFiles
  /\ config = None
  /\ NothingFetched
  /\ arg = None
  /\ ret = None

\* main()'s `except Exception as e`: the error is logged and main() returns, so
\* the interpreter exits with status 0.
MainExcept(exception) ==
  /\ raised' = exception
  /\ logged' = Append(logged, "ERROR")
  /\ pc' = "exited"
  /\ exit_status' = Some(0)

\* main() returns after its completion message.
MainReturns ==
  /\ raised' = raised
  /\ logged' = Append(logged, "INFO")
  /\ pc' = "exited"
  /\ exit_status' = Some(0)

\* main() up to the loop of fetch_arxiv_papers: PaperFetcher(), the makedirs of
\* save_papers, and the start of fetch_arxiv_papers.
Start(now, dirs_ok) ==
  /\ pc = "main"
  /\ UNCHANGED <<cfg_file, yielded, built, last, papers_high_if, papers_other, files,
                 arg, ret>>
  /\ IF cfg_file.status = "missing"
       THEN /\ MainExcept("FileNotFoundError")
            /\ UNCHANGED <<config, run_start, start_date, selected>>
     ELSE IF cfg_file.status = "unparsable"
       THEN /\ MainExcept("ValueError")
            /\ UNCHANGED <<config, run_start, start_date, selected>>
     ELSE IF ~dirs_ok
       THEN /\ config' = cfg_file.content
            /\ MainExcept("OSError")
            /\ UNCHANGED <<run_start, start_date, selected>>
     ELSE IF ~cfg_file.content[1].sources.arxiv.enabled
       THEN /\ config' = cfg_file.content
            /\ selected' = Some(<<>>)
            /\ MainReturns
            /\ UNCHANGED <<run_start, start_date>>
     ELSE /\ config' = cfg_file.content
          /\ run_start' = Some(now)
          /\ start_date' = Some(Cutoff(now, DaysBackOf(cfg_file.content[1])))
          /\ pc' = "fetching"
          /\ UNCHANGED <<selected, raised, logged, exit_status>>

\* The calls of one iteration on a retained result.
CallsBefore == <<"extract_official_keywords", "classify_paper", "extract_paper_keywords">>

\* The paper dict at the end of an iteration whose citation lookup returned.
Enriched(p, cited) ==
  [p EXCEPT !.citation_count = cited.value, !.impact_factor = get_impact_factor(p)]

\* The rest of an iteration on a result the date test retains: p is the paper
\* with its tags and keywords, cited the outcome of get_citation_count.
Enrich(p, reply, cited) ==
  IF cited.raises # "none"
    THEN /\ MainExcept(cited.raises)
         /\ last' = [index |-> Len(yielded) + 1, retained |-> TRUE, reply |-> reply,
                     calls |-> Append(CallsBefore, "get_citation_count"),
                     paper |-> Some(p), bucket |-> "none"]
         /\ UNCHANGED <<built, papers_high_if, papers_other>>
    ELSE \E paper \in {Enriched(p, cited)} :
           \E bucket \in {Bucket(paper)} :
             /\ last' = [index |-> Len(yielded) + 1, retained |-> TRUE,
                         reply |-> reply,
                         calls |-> CallsBefore
                                   \o <<"get_citation_count", "get_impact_factor">>,
                         paper |-> Some(paper), bucket |-> bucket]
             /\ built' = Append(built, paper)
             /\ papers_high_if' = IF bucket = "high" THEN Append(papers_high_if, paper)
                                  ELSE papers_high_if
             /\ papers_other' = IF bucket = "other" THEN Append(papers_other, paper)
                                ELSE papers_other
             /\ UNCHANGED <<pc, raised, logged, exit_status>>

\* One iteration of `for result in self.arxiv_client.results(search)`; the reply
\* of the citation service is read when get_citation_count asks for it.
HandleResult(result) ==
  /\ pc = "fetching"
  /\ Len(yielded) < MaxYield
  /\ yielded' = Append(yielded, result)
  /\ UNCHANGED <<cfg_file, config, run_start, start_date, selected, files, arg, ret>>
  /\ \E skip \in {Skipped(result.published, start_date[1])} :
       IF skip = "TypeError"
         THEN /\ MainExcept("TypeError")
              /\ last' = [NoIteration EXCEPT !.index = Len(yielded) + 1]
              /\ UNCHANGED <<built, papers_high_if, papers_other>>
       ELSE IF skip = "yes"
         THEN /\ last' = [NoIteration EXCEPT !.index = Len(yielded) + 1]
              /\ UNCHANGED <<built, papers_high_if, papers_other, pc, raised, logged,
                             exit_status>>
       ELSE \E new \in {NewPaper(result, NormalizeTz(result.published))} :
              \E extracted_list \in Listings(MatchedVocabulary(new, config[1])) :
                \E p \in {Tagged(new, result.comment, config[1], extracted_list)} :
                  \E reply \in Replies :
                    \E cited \in {get_citation_count(reply)} :
                      Enrich(p, reply, cited)

\* The search collaborator raises instead of yielding.
SearchFails ==
  /\ pc = "fetching"
  /\ MainExcept("HTTPError")
  /\ UNCHANGED <<cfg_file, config, run_start, start_date, yielded, built, last,
                 papers_high_if, papers_other, selected, files, arg, ret>>

\* The search collaborator is exhausted: fetch_arxiv_papers selects and returns,
\* save_papers writes, main() returns. Write number fail_at raises (0: none
\* does).
SearchEnds ==
  /\ pc = "fetching"
  /\ UNCHANGED <<cfg_file, config, run_start, start_date, yielded, built, last,
                 papers_high_if, papers_other, arg, ret>>
  /\ \E papers \in {Select(papers_high_if, papers_other, MaxResultsOf(config[1]))} :
       /\ selected' = Some(papers)
       /\ IF papers = <<>>
            THEN /\ files' = files
                 /\ MainReturns
            ELSE \E writes \in {Writes(papers, config[1])} :
                   \E fail_at \in 0..Len(writes) :
                     IF fail_at = 0
                       THEN /\ files' = Written(files, writes, Len(writes))
                            /\ MainReturns
                       ELSE /\ files' = Written(files, writes, fail_at - 1)
                            /\ MainExcept("OSError")

Next ==
  \/ \E now \in RunStarts, dirs_ok \in BOOLEAN : Start(now, dirs_ok)
  \/ \E result \in Results : HandleResult(result)
  \/ SearchFails
  \/ SearchEnds

Spec == Init /\ [][Next]_vars

(***************************************************************************)
(* classify_paper on generated texts: a PaperFetcher is constructed, a     *)
(* paper is classified, then a term of the machine-learning pool is added  *)
(* to its title and it is classified again.                                *)
(***************************************************************************)
\* The sequences of n elements of S.
Tuples(S, n) == [1..n -> S]

\* " ".join(ws)
RECURSIVE Spaced(_)
Spaced(ws) ==
  IF Len(ws) = 0 THEN <<>>
  ELSE IF Len(ws) = 1 THEN ws[1]
  ELSE ws[1] \o <<" ">> \o Spaced(Tail(ws))

TitleWords ==
  {<<"superfluid">>, <<"dynamics">>, <<"cfd">>, <<"Turbulence">>, <<"from">>,
   <<"pinn">>, <<"graph">>, <<"aerodynamics">>}

Titles == {Spaced(ws) : ws \in UNION {Tuples(TitleWords, n) : n \in 0..MaxWords}}

\* "deep learning", "pinn" and "rom" of ml_keywords_pool.
MlAdded == {ml_keywords_pool[k] : k \in {2, 4, 17}}

ClassifyConfigs == {ConfigFull(cap) : cap \in 1..MaxCap} \cup {ConfigPlain}

\* The keys of config["categories"].
CategoryNames(cfg) == {cfg.categories[c].name : c \in 1..Len(cfg.categories)}

InitClassify ==
  /\ pc = "classify"
  /\ cfg_file \in {[status |-> "ok", content |-> Some(c)] : c \in ClassifyConfigs}
  /\ config = cfg_file.content
  /\ NothingFetched
  /\ arg \in {[title |-> t, abstract |-> <<>>, added |-> None] : t \in Titles}
  /\ ret = [before |-> None, after |-> None]

\* tags = self.classify_paper(paper)
Classify ==
  /\ pc = "classify"
  /\ ret' = [ret EXCEPT !.before = Some(classify_paper(arg, config[1]))]
  /\ pc' = "classified"
  /\ UNCHANGED <<runVars, cfg_file, config, arg>>

\* The same paper with term after its title, classified again.
Reclassify(term) ==
  /\ pc = "classified"
  /\ arg' = [arg EXCEPT !.added = Some(term)]
  /\ ret' = [ret EXCEPT !.after =
               Some(classify_paper([arg EXCEPT !.title = @ \o <<" ">> \o term],
                                   config[1]))]
  /\ pc' = "reclassified"
  /\ UNCHANGED <<runVars, cfg_file, config>>

NextClassify ==
  \/ Classify
  \/ \E term \in MlAdded : Reclassify(term)

SpecClassify == InitClassify /\ [][NextClassify]_vars

(***************************************************************************)
(* extract_official_keywords on generated keyword lists.                   *)
(***************************************************************************)
KeywordItems == {<<"turbulence">>, <<"CFD">>, <<"deep", " ", "learning">>}

KeywordSeparators == {",", ";"}

\* items[1] seps[1] " " items[2] seps[2] " " ...
RECURSIVE Listed(_, _)
Listed(items, seps) ==
  IF Len(items) = 1 THEN items[1]
  ELSE items[1] \o <<seps[1], " ">> \o Listed(Tail(items), Tail(seps))

\* A search result whose abstract is "Keywords: " and the list.
ResultListing(items, seps) ==
  [ResultUntagged EXCEPT !.summary = <<"Keywords", ":", " ">> \o Listed(items, seps)]

InitKeywords ==
  /\ pc = "keywords"
  /\ cfg_file = [status |-> "ok", content |-> Some(ConfigPlain)]
  /\ config = cfg_file.content
  /\ NothingFetched
  /\ arg \in UNION {{[items |-> items, seps |-> seps] :
                       items \in Tuples(KeywordItems, n),
                       seps \in Tuples(KeywordSeparators, n - 1)} : n \in 1..MaxListLen}
  /\ ret = None

\* official_kw = self.extract_official_keywords(result)
ExtractKeywords ==
  /\ pc = "keywords"
  /\ ret' = Some(extract_official_keywords(ResultListing(arg.items, arg.seps)))
  /\ pc' = "extracted"
  /\ UNCHANGED <<runVars, cfg_file, config, arg>>

NextKeywords == ExtractKeywords

SpecKeywords == InitKeywords /\ [][NextKeywords]_vars

(***************************************************************************)
(* The properties.                                                         *)
(***************************************************************************)
\* main() returned from a run that raised nothing.
Succeeded == pc = "exited" /\ raised = "none" /\ selected # None

DocsPath == PathJoin(config[1].output.docs_dir, <<"papers.json">>)

IndexPath == PathJoin(config[1].output.data_dir, <<"index.json">>)

\* The records fetch_arxiv_papers returned.
Returned == IF selected = None THEN {} ELSE Elems(selected[1])

\* The records in the month files and in docs/papers.json.
Saved ==
  IF DOMAIN files = {} THEN {}
  ELSE UNION {Elems(files[f]) : f \in DOMAIN files \ {IndexPath}}

\* C1: after a run of save_papers that succeeded on a non-empty list,
\* docs/papers.json holds the whole list fetch_arxiv_papers returned, in order.
C1_DocsHoldWholeList ==
  (Succeeded /\ selected # <<<<>>>>) =>
    /\ DocsPath \in DOMAIN files
    /\ files[DocsPath] = selected[1]

\* C2: when main() caught an exception the error is logged and the exit status is
\* not 0; exit status 0 is reached only by a run without an exception.
C2_ExceptionExitsNonZero ==
  pc = "exited" =>
    /\ raised # "none" => ("ERROR" \in Elems(logged) /\ exit_status # Some(0))
    /\ exit_status = Some(0) => raised = "none"

\* C3: every record of the two buckets, of the returned list and of the files has
\* a tag, and a built paper whose tags (what classify_paper returned) are empty is
\* in neither bucket.
C3_OutputIsTagged ==
  /\ \A p \in Elems(papers_high_if) \cup Elems(papers_other) \cup Returned \cup Saved :
       p.tags # {}
  /\ \A k \in 1..Len(built) :
       built[k].tags = {}
         => built[k] \notin Elems(papers_high_if) \cup Elems(papers_other)

\* A run that built an untagged paper, then returned and saved other papers.
C3_Witness ==
  /\ Succeeded
  /\ \E k \in 1..Len(built) : built[k].tags = {}
  /\ Returned # {}
  /\ Saved = Returned

HighImpact(p) ==
  p.tags # {} /\ p.impact_factor # None /\ p.impact_factor[1] >= ImpactThreshold

OtherImpact(p) == p.tags # {} /\ ~HighImpact(p)

\* The retained, tagged records, in the order the search yielded them.
H == SelectSeq(built, HighImpact)

O == SelectSeq(built, OtherImpact)

C5_AllItemsReturned ==
  pc = "extracted" => ret[1] = {lower(arg.items[k]) : k \in 1..Len(arg.items)}

\* C6 as stated: the keywords of every built record are at most 10.
C6_KeywordsCapped ==
  \A k \in 1..Len(built) : Cardinality(built[k].keywords) <= MaxKeywords

\* C6, amended: custom_keywords has at most 10 entries, and keywords is the union
\* of official_keywords and custom_keywords, so at most 10 more than the official
\* keywords.
C6_CustomKeywordsCapped ==
  \A k \in 1..Len(built) :
    /\ Len(built[k].custom_keywords) <= MaxKeywords
    /\ built[k].keywords = built[k].official_keywords \cup Elems(built[k].custom_keywords)
    /\ Cardinality(built[k].keywords)
         <= MaxKeywords + Cardinality(built[k].official_keywords)

\* A record whose text holds more than 10 core terms: custom_keywords was cut to
\* 10, and the official keywords bring the union above 10.
C6_Witness ==
  \E k \in 1..Len(built) :
    /\ Cardinality({i \in 1..Len(CoreTerms) : In(CoreTerms[i], PaperText(built[k]))})
         > MaxKeywords
    /\ Len(built[k].custom_keywords) = MaxKeywords
    /\ Cardinality(built[k].keywords) > MaxKeywords

\* The text first classified holds a fluid term and no machine-learning term.
FluidOnly == HasFluid(PaperText(arg)) /\ ~HasMl(PaperText(arg))

\* C7 as stated: for every config, a text with a fluid term and no ML term does
\* not get the cross-domain tag, and gets it once an ML term is added.
C7_CrossDomainEveryConfig ==
  (pc \in {"classified", "reclassified"} /\ FluidOnly) =>
    /\ CrossDomain \notin ret.before[1]
    /\ pc = "reclassified" => CrossDomain \in ret.after[1]

\* C7, amended: the tag is added only when config["categories"] holds the
\* cross-domain category.
C7_CrossDomainWhenConfigured ==
  (pc \in {"classified", "reclassified"} /\ FluidOnly) =>
    /\ CrossDomain \notin ret.before[1]
    /\ (pc = "reclassified" /\ CrossDomain \in CategoryNames(config[1]))
         => CrossDomain \in ret.after[1]

C7_Witness ==
  /\ pc = "reclassified"
  /\ FluidOnly
  /\ CrossDomain \in CategoryNames(config[1])
  /\ CrossDomain \notin ret.before[1]
  /\ CrossDomain \in ret.after[1]

\* The instant of a published timestamp, one without timezone read as UTC.
Instant(published) ==
  ((published.year - 2025) * 365 + DaysBeforeMonth[published.month]
     + published.day - 1) * 24 + published.hour
    - (IF published.tzinfo = None THEN 0 ELSE published.tzinfo[1])

InWindow(result) == Instant(result.published) >= start_date[1]

IdOf(result) == result.entry_id[Len(result.entry_id)]

\* C8: the cutoff is the run's start minus days_back days; the results at or after
\* the cutoff are the ones built, a timestamp without timezone counting as UTC,
\* and an older result gets no enrichment.
C8_DateWindow ==
  start_date # None =>
    /\ start_date[1] = Instant(run_start[1]) - 24 * DaysBackOf(config[1])
    /\ [k \in 1..Len(built) |-> built[k].id]
         = [k \in 1..Len(SelectSeq(yielded, InWindow)) |->
              <<IdOf(SelectSeq(yielded, InWindow)[k])>>]
    /\ (last.index > 0 /\ ~InWindow(yielded[last.index]))
         => (~last.retained /\ last.calls = <<>> /\ last.paper = None)

\* A result without timezone published at the cutoff was built, and a result one
\* hour older was skipped.
C8_Witness ==
  /\ start_date # None
  /\ Len(yielded) = 2
  /\ yielded[1].published.tzinfo = None
  /\ Instant(yielded[1].published) = start_date[1]
  /\ Instant(yielded[2].published) = start_date[1] - 1
  /\ Len(built) = 1
  /\ built[1].id = <<IdOf(yielded[1])>>

\* The citation service did not answer, or not with a parsable status-200 body.
CitationFailed(reply) ==
  reply.outcome # "response" \/ reply.status_code # 200 \/ ~reply.parses

\* C9: a failed citation lookup raises nothing in the run; the record has no
\* citation_count, gets its impact lookup and its bucket, and the loop goes on.
C9_CitationFailureRecovered ==
  (last.retained /\ CitationFailed(last.reply)) =>
    /\ raised \notin {"Timeout", "ConnectionError", "JSONDecodeError"}
    /\ last.paper[1].citation_count = None
    /\ last.calls = CallsBefore \o <<"get_citation_count", "get_impact_factor">>
    /\ built[Len(built)] = last.paper[1]
    /\ last.bucket = "high" => papers_high_if[Len(papers_high_if)] = last.paper[1]
    /\ last.bucket = "other" => papers_other[Len(papers_other)] = last.paper[1]
    /\ last.bucket = "none" => last.paper[1].tags = {}

\* The request timed out, the record went to a bucket, the loop can go on.
C9_Witness ==
  /\ pc = "fetching"
  /\ Len(yielded) < MaxYield
  /\ last.retained
  /\ last.reply.outcome = "Timeout"
  /\ last.bucket = "high"
  /\ papers_high_if # <<>>

\* C10: a status-200 reply with a non-empty data list gives the record the
\* citationCount of the first entry.
C10_CountOfSuccessfulReply ==
  (/\ last.retained
   /\ last.reply.outcome = "response"
   /\ last.reply.status_code = 200
   /\ last.reply.parses
   /\ last.reply.data # <<>>)
    => (/\ last.paper[1].citation_count # None
        /\ last.paper[1].citation_count = last.reply.data[1])
====
